---- MODULE Spec2Model ----
(***************************************************************************)
(* Weather resolution and scoring engine of VanLifeToolBox.                *)
(*                                                                         *)
(*   server/src/services/weather.service.ts    cache + provider resolution *)
(*   server/src/providers/openmeteo.provider.ts  source routing, fallback  *)
(*   server/src/services/scoring.service.ts    scoring of daily records    *)
(*   server/src/routes/weather.routes.ts       POST /search, batch loop    *)
(*   server/src/validators/weather.ts          request validation          *)
(*                                                                         *)
(* Spec is the resolution of one grid point over time; SpecSearch is one   *)
(* POST /search request; SpecScore, SpecLocation and SpecAvg apply the     *)
(* scoring of a day, the scoring of a location and the averaging fallback  *)
(* to inputs drawn at Init.                                                *)
(*                                                                         *)
(* Time is counted in hours since midnight of calendar day 0; a calendar   *)
(* date is a day index, and "today" is the day index of the current hour.  *)
(* The server process runs in UTC: the local midnight of setHours(0,0,0,0) *)
(* and the UTC midnight of new Date("YYYY-MM-DD") are the same instant.    *)
(***************************************************************************)
EXTENDS Integers, Sequences, FiniteSets, TLC

VARIABLES
    now,      \* wall clock, in hours
    cache,    \* rows of the weather_cache table of the one grid point
    calls,    \* number of per-location evaluations performed so far
    last,     \* observation of the last per-location evaluation
    scIn,     \* scoring harness: the inputs of the scoring function
    scOut,    \* scoring harness: its outputs
    avIn,     \* averaging harness: the range and the outcome of each year's fetch
    avOut,    \* averaging harness: what fetchHistoricalAverages did
    req,      \* POST /search: the request body and the grid points it selects
    pos,      \* POST /search: index i of the batch loop (-1 before validation)
    scoredLocations,  \* POST /search: the results retained so far
    evaluated,        \* POST /search: the grid points handed to the closure
    response, \* POST /search: the response sent
    gw,       \* one provider request (getWeather), step by step
    inFlight, \* POST /search: the closures of the current batch not yet settled
    settled,  \* POST /search: the results of the settled closures of the batch
    procs     \* two resolutions of the same grid point running concurrently

resolveVars == <<now, cache, calls, last>>
scoreVars == <<scIn, scOut>>
avgVars == <<avIn, avOut>>
searchVars == <<req, pos, scoredLocations, evaluated, response>>

providerVars == <<gw>>
batchVars == <<inFlight, settled>>
concVars == <<procs>>
extraVars == <<gw, inFlight, settled, procs>>

vars == <<now, cache, calls, last, scIn, scOut, avIn, avOut,
          req, pos, scoredLocations, evaluated, response,
          gw, inFlight, settled, procs>>

(***************************************************************************)
(* Program constants                                                       *)
(***************************************************************************)
FORECAST_CACHE_HOURS == 6
HISTORICAL_CACHE_DAYS == 7
HoursPerDay == 24
maxForecastDays == 16

(***************************************************************************)
(* Bounds of the model                                                     *)
(***************************************************************************)
MaxCalls == 3

\* The instants (hours) at which the clock is observed: 18:00 of day 0,
\* 00:00 and 06:00 of day 1, 00:00 and 06:00 of day 8.
Instants == {18, 24, 30, 192, 198}

\* The date ranges a search may ask for (inclusive day indices).
ReqRanges == {<<0, 0>>, <<1, 1>>, <<0, 1>>, <<0, 2>>, <<17, 17>>, <<16, 17>>}

(***************************************************************************)
(* Helpers                                                                 *)
(***************************************************************************)
Max(a, b) == IF a >= b THEN a ELSE b
Min(a, b) == IF a <= b THEN a ELSE b
SetMin(S) == CHOOSE x \in S : \A y \in S : x <= y
SetMax(S) == CHOOSE x \in S : \A y \in S : x >= y

\* Math.round of the non-negative quotient n / d (halves round up).
Round(n, d) == (2 * n + d) \div (2 * d)

\* An optional field is the empty set when undefined, else a singleton.
IsDef(x) == x # {}
Val(x) == CHOOSE v \in x : TRUE

\* The ascending sequence of the elements of a finite set of integers.
RECURSIVE Ascending(_)
Ascending(S) ==
    IF S = {} THEN <<>>
    ELSE LET m == SetMin(S) IN <<m>> \o Ascending(S \ {m})

(***************************************************************************)
(* Scoring service (scoring.service.ts)                                    *)
(*                                                                         *)
(* A day is a record [date, tempHigh, tempLow, humidity, windSpeed,        *)
(* precipChance, precipType]; filters is a record of optional fields.      *)
(***************************************************************************)
\* Every CATEGORY_WEIGHTS entry is 0.25 = 1 / CATEGORY_WEIGHT_DIVISOR.
CATEGORY_WEIGHT_DIVISOR == 4

scoreTemperature(high, low, filters) ==
    IF IsDef(filters.tempMin) /\ high < Val(filters.tempMin)
    THEN Max(0, 100 - (Val(filters.tempMin) - high) * 10)
    ELSE IF IsDef(filters.tempMax) /\ low > Val(filters.tempMax)
    THEN Max(0, 100 - (low - Val(filters.tempMax)) * 10)
    ELSE 100

\* Variant: humidity loses 10 points per percentage point, as the wind does.
scoreHumidity_TenPerPoint(humidity, maxHumidity) ==
    IF humidity <= maxHumidity THEN 100
    ELSE Max(0, 100 - (humidity - maxHumidity) * 10)

scoreHumidity(humidity, maxHumidity) ==
    IF humidity <= maxHumidity THEN 100
    ELSE Max(0, 100 - (humidity - maxHumidity) * 5)

\* Variant: the wind score is not floored at 0.
scoreWind_NoFloor(windSpeed, maxWind) ==
    IF windSpeed <= maxWind THEN 100
    ELSE 100 - (windSpeed - maxWind) * 10

scoreWind(windSpeed, maxWind) ==
    IF windSpeed <= maxWind THEN 100
    ELSE Max(0, 100 - (windSpeed - maxWind) * 10)

\* Variant: the chance check assigns its score instead of keeping the minimum.
scorePrecipitation_Overwrite(chance, type, filters) ==
    LET s0 == 100
        s1 == IF IsDef(filters.precipTypesExcluded)
                 /\ type \in Val(filters.precipTypesExcluded)
                 /\ chance > 0
              THEN Max(0, 100 - chance) ELSE s0
        s2 == IF IsDef(filters.precipTypesAllowed)
                 /\ Val(filters.precipTypesAllowed) # {}
                 /\ type \notin Val(filters.precipTypesAllowed)
                 /\ type # "none"
                 /\ chance > 0
              THEN Min(s1, Max(0, 100 - chance)) ELSE s1
        s3 == IF IsDef(filters.precipChanceMax)
                 /\ chance > Val(filters.precipChanceMax)
              THEN Max(0, 100 - (chance - Val(filters.precipChanceMax)) * 2)
              ELSE s2
    IN  s3

scorePrecipitation(chance, type, filters) ==
    LET s0 == 100
        s1 == IF IsDef(filters.precipTypesExcluded)
                 /\ type \in Val(filters.precipTypesExcluded)
                 /\ chance > 0
              THEN Max(0, 100 - chance) ELSE s0
        s2 == IF IsDef(filters.precipTypesAllowed)
                 /\ Val(filters.precipTypesAllowed) # {}
                 /\ type \notin Val(filters.precipTypesAllowed)
                 /\ type # "none"
                 /\ chance > 0
              THEN Min(s1, Max(0, 100 - chance)) ELSE s1
        s3 == IF IsDef(filters.precipChanceMax)
                 /\ chance > Val(filters.precipChanceMax)
              THEN Min(s2, Max(0, 100 - (chance - Val(filters.precipChanceMax)) * 2))
              ELSE s2
    IN  s3

TempActive(filters) == IsDef(filters.tempMin) \/ IsDef(filters.tempMax)
HumidityActive(filters) == IsDef(filters.humidityMax)
WindActive(filters) == IsDef(filters.windSpeedMax)
PrecipActive(filters) ==
    \/ IsDef(filters.precipChanceMax)
    \/ IsDef(filters.precipTypesAllowed)
    \/ IsDef(filters.precipTypesExcluded)

\* Sum over the days of a per-day category score.
RECURSIVE CategoryTotal(_, _, _)
CategoryTotal(daily, filters, cat) ==
    IF daily = <<>> THEN 0
    ELSE LET day == Head(daily)
             sc == CASE cat = "temperature" ->
                           scoreTemperature(day.tempHigh, day.tempLow, filters)
                     [] cat = "humidity" ->
                           scoreHumidity(day.humidity, Val(filters.humidityMax))
                     [] cat = "wind" ->
                           scoreWind(day.windSpeed, Val(filters.windSpeedMax))
                     [] cat = "precipitation" ->
                           scorePrecipitation(day.precipChance, day.precipType, filters)
         IN  sc + CategoryTotal(Tail(daily), filters, cat)

\* Variant: the category means are truncated, not rounded.
calculateCategoryScores_Floor(daily, filters) ==
    LET tempCount == IF TempActive(filters) THEN Len(daily) ELSE 0
        humidityCount == IF HumidityActive(filters) THEN Len(daily) ELSE 0
        windCount == IF WindActive(filters) THEN Len(daily) ELSE 0
        precipCount == IF PrecipActive(filters) THEN Len(daily) ELSE 0
    IN  [temperature |-> IF tempCount > 0
                         THEN CategoryTotal(daily, filters, "temperature") \div tempCount
                         ELSE 100,
         humidity |-> IF humidityCount > 0
                      THEN CategoryTotal(daily, filters, "humidity") \div humidityCount
                      ELSE 100,
         wind |-> IF windCount > 0
                  THEN CategoryTotal(daily, filters, "wind") \div windCount
                  ELSE 100,
         precipitation |-> IF precipCount > 0
                           THEN CategoryTotal(daily, filters, "precipitation") \div precipCount
                           ELSE 100,
         aqi |-> "null"]

calculateCategoryScores(daily, filters) ==
    LET tempCount == IF TempActive(filters) THEN Len(daily) ELSE 0
        humidityCount == IF HumidityActive(filters) THEN Len(daily) ELSE 0
        windCount == IF WindActive(filters) THEN Len(daily) ELSE 0
        precipCount == IF PrecipActive(filters) THEN Len(daily) ELSE 0
    IN  [temperature |-> IF tempCount > 0
                         THEN Round(CategoryTotal(daily, filters, "temperature"), tempCount)
                         ELSE 100,
         humidity |-> IF humidityCount > 0
                      THEN Round(CategoryTotal(daily, filters, "humidity"), humidityCount)
                      ELSE 100,
         wind |-> IF windCount > 0
                  THEN Round(CategoryTotal(daily, filters, "wind"), windCount)
                  ELSE 100,
         precipitation |-> IF precipCount > 0
                           THEN Round(CategoryTotal(daily, filters, "precipitation"), precipCount)
                           ELSE 100,
         aqi |-> "null"]

\* Variant: the temperature is weighted twice and the wind not at all.
calculateOverallScore_NoWind(breakdown) ==
    breakdown.temperature + breakdown.humidity
        + breakdown.temperature + breakdown.precipitation

\* The weighted sum, as the numerator over CATEGORY_WEIGHT_DIVISOR.
calculateOverallScore(breakdown) ==
    breakdown.temperature + breakdown.humidity
        + breakdown.wind + breakdown.precipitation

\* The score of a day is the quotient totalScore / categoryCount, kept as
\* the pair [num, den]; it is 100 when no category is active.
scoreSingleDay(day, filters) ==
    LET tempScore == IF TempActive(filters)
                     THEN <<scoreTemperature(day.tempHigh, day.tempLow, filters)>>
                     ELSE <<>>
        humidityScore == IF HumidityActive(filters)
                         THEN <<scoreHumidity(day.humidity, Val(filters.humidityMax))>>
                         ELSE <<>>
        windScore == IF WindActive(filters)
                     THEN <<scoreWind(day.windSpeed, Val(filters.windSpeedMax))>>
                     ELSE <<>>
        precipScore == IF PrecipActive(filters)
                       THEN <<scorePrecipitation(day.precipChance, day.precipType, filters)>>
                       ELSE <<>>
        scores == tempScore \o humidityScore \o windScore \o precipScore
        categoryCount == Len(scores)
        totalScore == IF categoryCount = 0 THEN 0
                      ELSE LET Sum[i \in 0..categoryCount] ==
                                   IF i = 0 THEN 0 ELSE Sum[i - 1] + scores[i]
                           IN  Sum[categoryCount]
    IN  [score |-> IF categoryCount > 0
                   THEN [num |-> totalScore, den |-> categoryCount]
                   ELSE [num |-> 100, den |-> 1],
         passesAllFilters |-> \A i \in 1..categoryCount : scores[i] # 0]

\* The score field of the scored location: Math.round(overallScore).  The
\* route reads nothing else of a scored location before it responds.
locationScore(daily, filters) ==
    Round(calculateOverallScore(calculateCategoryScores(daily, filters)),
          CATEGORY_WEIGHT_DIVISOR)

scoreLocation(daily, filters, dataSource) ==
    LET categoryScores == calculateCategoryScores(daily, filters)
    IN  [score |-> locationScore(daily, filters),
         scoreBreakdown |-> categoryScores,
         dailyScores |-> [i \in 1..Len(daily) |->
                             [date |-> daily[i].date,
                              score |-> scoreSingleDay(daily[i], filters).score,
                              passesFilters |->
                                  scoreSingleDay(daily[i], filters).passesAllFilters]],
         days |-> Len(daily),
         dataSource |-> dataSource]

(***************************************************************************)
(* Open-Meteo provider (openmeteo.provider.ts)                             *)
(*                                                                         *)
(* The outcome of the HTTP calls of one getWeather request is an input:    *)
(* out.hist, out.fcst tell whether the archive and the forecast endpoint   *)
(* answer, out.fb and out.avg whether at least one of the sampled years    *)
(* answers in the averaging fallback of the forecast branch and of the     *)
(* beyond-horizon branch.  A source that answers returns one record per    *)
(* date asked.                                                             *)
(***************************************************************************)
Outcomes == [hist : BOOLEAN, fcst : BOOLEAN, fb : BOOLEAN, avg : BOOLEAN]

AllOk == [hist |-> TRUE, fcst |-> TRUE, fb |-> TRUE, avg |-> TRUE]

\* The record an endpoint builds for a date (parseResponse); origin names the
\* code path that built it and asOf the hour of the request.
ProviderDay(date, origin, t) ==
    [date |-> date, origin |-> origin, asOf |-> t,
     tempHigh |-> 70 + 6 * (date % 4),
     tempLow |-> 55 + 6 * (date % 4),
     humidity |-> 60 + 10 * (date % 3),
     windSpeed |-> 8 + 4 * (date % 2),
     precipChance |-> IF origin = "forecast" THEN 20 * (date % 3)
                      ELSE IF date % 3 = 2 THEN 100 ELSE 0,
     precipType |-> IF date % 3 = 2 THEN "rain" ELSE "none"]

DayRange(startDate, endDate, origin, t) ==
    [i \in 1..(endDate - startDate + 1) |-> ProviderDay(startDate + i - 1, origin, t)]

fetchHistorical(startDate, endDate, t) == DayRange(startDate, endDate, "historical", t)

fetchForecast(startDate, endDate, t) == DayRange(startDate, endDate, "forecast", t)

\* The estimate averaged over the sampled years that answered.
fetchHistoricalAverages(startDate, endDate, t) == DayRange(startDate, endDate, "averaged", t)

\* uniqueByDate: a later record of a date replaces an earlier one only when
\* the date is today or later.
RECURSIVE UniqueByDate(_, _, _)
UniqueByDate(results, today, acc) ==
    IF results = <<>> THEN acc
    ELSE LET day == Head(results)
             has == \E r \in acc : r.date = day.date
             acc2 == IF ~has \/ day.date >= today
                     THEN {r \in acc : r.date # day.date} \cup {day}
                     ELSE acc
         IN  UniqueByDate(Tail(results), today, acc2)

\* Array sort by date of records with pairwise distinct dates.
SortByDate(recs) ==
    LET ds == Ascending({r.date : r \in recs})
    IN  [i \in 1..Len(ds) |-> CHOOSE r \in recs : r.date = ds[i]]

\* The endpoint calls one getWeather request issues, with their outcome.
SourceCalls(startDate, endDate, today, out) ==
    LET forecastEnd == today + maxForecastDays
        needsHistorical == startDate < today
        needsForecast == endDate >= today /\ startDate <= forecastEnd
        needsHistoricalFallback == endDate > forecastEnd
        histEnd == IF endDate < today THEN endDate ELSE today - 1
        fcstStart == Max(startDate, today)
        fcstEnd == Min(endDate, forecastEnd)
        fallbackStart == Max(forecastEnd + 1, startDate)
    IN  (IF needsHistorical /\ startDate <= histEnd
         THEN {[src |-> "historical", from |-> startDate, to |-> histEnd, ok |-> out.hist]}
         ELSE {})
        \cup
        (IF needsForecast
         THEN {[src |-> "forecast", from |-> fcstStart, to |-> fcstEnd, ok |-> out.fcst]}
         ELSE {})
        \cup
        (IF needsForecast /\ ~out.fcst
         THEN {[src |-> "averaged", from |-> fcstStart, to |-> fcstEnd, ok |-> out.fb]}
         ELSE {})
        \cup
        (IF needsHistoricalFallback
         THEN {[src |-> "averaged", from |-> fallbackStart, to |-> endDate, ok |-> out.avg]}
         ELSE {})

\* Variant: the first endpoint failure aborts the request.
getWeather_FailFast(startDate, endDate, today, out, t) ==
    LET forecastEnd == today + maxForecastDays
        needsHistorical == startDate < today
        needsForecast == endDate >= today /\ startDate <= forecastEnd
        needsHistoricalFallback == endDate > forecastEnd
        histEnd == IF endDate < today THEN endDate ELSE today - 1
        histFailed == needsHistorical /\ startDate <= histEnd /\ ~out.hist
        r1 == IF needsHistorical /\ startDate <= histEnd /\ out.hist
              THEN fetchHistorical(startDate, histEnd, t)
              ELSE <<>>
        fcstStart == Max(startDate, today)
        fcstEnd == Min(endDate, forecastEnd)
        fcstFailed == needsForecast /\ ~out.fcst /\ ~out.fb
        r2 == IF ~needsForecast THEN <<>>
              ELSE IF out.fcst THEN fetchForecast(fcstStart, fcstEnd, t)
              ELSE IF out.fb THEN fetchHistoricalAverages(fcstStart, fcstEnd, t)
              ELSE <<>>
        fallbackStart == Max(forecastEnd + 1, startDate)
        avgFailed == needsHistoricalFallback /\ ~out.avg
        r3 == IF needsHistoricalFallback /\ out.avg
              THEN fetchHistoricalAverages(fallbackStart, endDate, t)
              ELSE <<>>
    IN  IF histFailed \/ fcstFailed \/ avgFailed THEN <<>>
        ELSE SortByDate(UniqueByDate(r1 \o r2 \o r3, today, {}))

getWeather(startDate, endDate, today, out, t) ==
    LET forecastEnd == today + maxForecastDays
        needsHistorical == startDate < today
        needsForecast == endDate >= today /\ startDate <= forecastEnd
        needsHistoricalFallback == endDate > forecastEnd
        histEnd == IF endDate < today THEN endDate ELSE today - 1
        r1 == IF needsHistorical /\ startDate <= histEnd /\ out.hist
              THEN fetchHistorical(startDate, histEnd, t)
              ELSE <<>>
        fcstStart == Max(startDate, today)
        fcstEnd == Min(endDate, forecastEnd)
        r2 == IF ~needsForecast THEN <<>>
              ELSE IF out.fcst THEN fetchForecast(fcstStart, fcstEnd, t)
              ELSE IF out.fb THEN fetchHistoricalAverages(fcstStart, fcstEnd, t)
              ELSE <<>>
        fallbackStart == Max(forecastEnd + 1, startDate)
        r3 == IF needsHistoricalFallback /\ out.avg
              THEN fetchHistoricalAverages(fallbackStart, endDate, t)
              ELSE <<>>
    IN  SortByDate(UniqueByDate(r1 \o r2 \o r3, today, {}))

(***************************************************************************)
(* Weather service (weather.service.ts)                                    *)
(*                                                                         *)
(* A cache row is [date, dataType, data, fetchedAt]; the table is unique   *)
(* on (gridPointId, date, dataType) and the model holds one grid point.    *)
(***************************************************************************)
Today(t) == t \div HoursPerDay

NoRow == [date |-> -1, dataType |-> "none", data |-> [date |-> -1], fetchedAt |-> 0]

\* Variant: an entry expires as soon as its age reaches the limit.
isCacheExpired_AtLimit(fetchedAt, dataType, t) ==
    LET ageMs == t - fetchedAt
    IN  IF dataType = "forecast"
        THEN ageMs >= FORECAST_CACHE_HOURS
        ELSE ageMs >= HISTORICAL_CACHE_DAYS * HoursPerDay

isCacheExpired(fetchedAt, dataType, t) ==
    LET ageMs == t - fetchedAt
    IN  IF dataType = "forecast"
        THEN ageMs > FORECAST_CACHE_HOURS
        ELSE ageMs > HISTORICAL_CACHE_DAYS * HoursPerDay

\* findMany returns the rows of the range in no specified order and cacheMap
\* keeps, for each date, the row read last: of the rows of a date (one per
\* data type) either may be the one, here the one of type readLast[d] if present.
CacheMaps(rows, startDate, endDate) ==
    {[d \in startDate..endDate |->
        LET ofDate == {r \in rows : r.date = d}
        IN  IF ofDate = {} THEN NoRow
            ELSE IF \E r \in ofDate : r.dataType = readLast[d]
            THEN CHOOSE r \in ofDate : r.dataType = readLast[d]
            ELSE CHOOSE r \in ofDate : TRUE] :
     readLast \in [startDate..endDate -> {"forecast", "historical"}]}

\* The dates that need fetching: not cached, or cache expired.
DatesToFetch(dates, cacheMap, t) ==
    {d \in dates :
        \/ cacheMap[d] = NoRow
        \/ isCacheExpired(cacheMap[d].fetchedAt, cacheMap[d].dataType, t)}

\* Variant: today itself counts as past.
dataTypeOfDay_TodayPast(date, today) ==
    IF date <= today THEN "historical" ELSE "forecast"

\* The data type given to a fetched day when it is added to the cache map.
dataTypeOfDay(date, today) ==
    IF date < today THEN "historical" ELSE "forecast"

\* Variant: a fetched day fills only a date that has no entry.
AddToCacheMap_KeepCached(cacheMap, fetched, today, t) ==
    [d \in DOMAIN cacheMap |->
        IF cacheMap[d] = NoRow /\ \E i \in 1..Len(fetched) : fetched[i].date = d
        THEN LET day == fetched[CHOOSE i \in 1..Len(fetched) : fetched[i].date = d]
             IN  [date |-> d, dataType |-> dataTypeOfDay(d, today),
                  data |-> day, fetchedAt |-> t]
        ELSE cacheMap[d]]

\* "Add to cache map": every fetched day replaces the entry of its date.
AddToCacheMap(cacheMap, fetched, today, t) ==
    [d \in DOMAIN cacheMap |->
        IF \E i \in 1..Len(fetched) : fetched[i].date = d
        THEN LET day == fetched[CHOOSE i \in 1..Len(fetched) : fetched[i].date = d]
             IN  [date |-> d, dataType |-> dataTypeOfDay(d, today),
                  data |-> day, fetchedAt |-> t]
        ELSE cacheMap[d]]

\* One upsert on the key (date, dataType).
\* Variant: the write always creates a row.
Upsert_Create(rows, day, today, t) ==
    LET dataType == IF day.date < today THEN "historical" ELSE "forecast"
    IN  rows \cup {[date |-> day.date, dataType |-> dataType,
                    data |-> day, fetchedAt |-> t]}

Upsert(rows, day, today, t) ==
    LET dataType == IF day.date < today THEN "historical" ELSE "forecast"
    IN  {r \in rows : ~(r.date = day.date /\ r.dataType = dataType)}
            \cup {[date |-> day.date, dataType |-> dataType,
                   data |-> day, fetchedAt |-> t]}

\* The upserts of all fetched days, applied as one transaction.
RECURSIVE cacheWeatherData(_, _, _, _)
cacheWeatherData(rows, daily, today, t) ==
    IF daily = <<>> THEN rows
    ELSE cacheWeatherData(Upsert(rows, Head(daily), today, t), Tail(daily), today, t)

\* "Build result from cache map": the records of the dates that have an entry.
RECURSIVE BuildDaily(_, _)
BuildDaily(dateSeq, cacheMap) ==
    IF dateSeq = <<>> THEN <<>>
    ELSE (IF cacheMap[Head(dateSeq)] # NoRow
          THEN <<cacheMap[Head(dateSeq)].data>> ELSE <<>>)
         \o BuildDaily(Tail(dateSeq), cacheMap)

DataSourceOf(dates, cacheMap) ==
    LET hasForecast == \E d \in dates : cacheMap[d].dataType = "forecast"
        hasHistorical == \E d \in dates : cacheMap[d].dataType = "historical"
    IN  IF hasForecast /\ hasHistorical THEN "mixed"
        ELSE IF hasHistorical THEN "historical"
        ELSE "forecast"

\* The part of getGridPointWeather after the provider has answered fetched
\* (lines 92-137): write-back, merge, result.
AfterFetch(rows, dates, cacheMap, datesToFetch, fetched, issued, writeOk, today, t) ==
    LET fetching == datesToFetch # {}
        threw == fetching /\ ~writeOk
    IN  [threw |-> threw,
         daily |-> IF threw THEN <<>>
                   ELSE IF fetching
                   THEN BuildDaily(Ascending(dates), AddToCacheMap(cacheMap, fetched, today, t))
                   ELSE BuildDaily(Ascending(dates), cacheMap),
         dataSource |-> IF threw THEN "none"
                        ELSE IF fetching
                        THEN DataSourceOf(dates, AddToCacheMap(cacheMap, fetched, today, t))
                        ELSE DataSourceOf(dates, cacheMap),
         datesToFetch |-> datesToFetch,
         providerCalled |-> fetching,
         fetched |-> fetched,
         sourceCalls |-> issued,
         rowsAfter |-> IF fetching /\ writeOk
                       THEN cacheWeatherData(rows, fetched, today, t)
                       ELSE rows]

\* Variant: the provider is asked for the whole requested range.
getGridPointWeather_WholeRange(rows, startDate, endDate, cacheMap, out, writeOk, t) ==
    LET today == Today(t)
        dates == startDate..endDate
        datesToFetch == DatesToFetch(dates, cacheMap, t)
    IN  IF datesToFetch # {}
        THEN AfterFetch(rows, dates, cacheMap, datesToFetch,
                        getWeather(startDate, endDate, today, out, t),
                        SourceCalls(startDate, endDate, today, out),
                        writeOk, today, t)
        ELSE AfterFetch(rows, dates, cacheMap, datesToFetch, <<>>, {}, writeOk, today, t)

\* getGridPointWeather at hour t on table rows, where the read built cacheMap,
\* the provider behaves as out and the write transaction commits iff writeOk.
getGridPointWeather(rows, startDate, endDate, cacheMap, out, writeOk, t) ==
    LET today == Today(t)
        dates == startDate..endDate
        datesToFetch == DatesToFetch(dates, cacheMap, t)
    IN  IF datesToFetch # {}
        THEN AfterFetch(rows, dates, cacheMap, datesToFetch,
                        getWeather(SetMin(datesToFetch), SetMax(datesToFetch), today, out, t),
                        SourceCalls(SetMin(datesToFetch), SetMax(datesToFetch), today, out),
                        writeOk, today, t)
        ELSE AfterFetch(rows, dates, cacheMap, datesToFetch, <<>>, {}, writeOk, today, t)

(***************************************************************************)
(* POST /search, the evaluation of one grid point (weather.routes.ts)      *)
(***************************************************************************)
NoFilters ==
    [tempMin |-> {}, tempMax |-> {}, humidityMax |-> {}, windSpeedMax |-> {},
     precipChanceMax |-> {}, precipTypesAllowed |-> {}, precipTypesExcluded |-> {}]

\* The searches of the model: their filters and score floor.
RouteSearches ==
    {[filters |-> [NoFilters EXCEPT !.tempMin = {70}, !.tempMax = {80},
                                    !.humidityMax = {65}],
      minScore |-> 95]}

\* The closure mapped over a batch, given what getGridPointWeather did
\* (weather): an exception gives null, else the records are scored.  The
\* result is pushed when it is not null and its score reaches minScore.
EvaluateGridPoint(weather, startDate, endDate, filters, minScore, cacheMap, writeOk, t) ==
    [observed |->
        [startDate |-> startDate, endDate |-> endDate, at |-> t,
         cacheMap |-> cacheMap, writeOk |-> writeOk, minScore |-> minScore,
         threw |-> weather.threw,
         daily |-> weather.daily,
         dataSource |-> weather.dataSource,
         datesToFetch |-> weather.datesToFetch,
         providerCalled |-> weather.providerCalled,
         fetched |-> weather.fetched,
         sourceCalls |-> weather.sourceCalls,
         isNull |-> weather.threw,
         score |-> IF weather.threw THEN -1
                   ELSE locationScore(weather.daily, filters),
         pushed |-> ~weather.threw
                    /\ locationScore(weather.daily, filters)
                          >= minScore],
     rowsAfter |-> weather.rowsAfter]

Idle == [startDate |-> -1]

\* No search request is being served.
SearchIdle ==
    /\ req = Idle
    /\ pos = -1
    /\ scoredLocations = <<>>
    /\ evaluated = {}
    /\ response = Idle

\* No provider request, no batch and no concurrent resolution is under way.
ExtraIdle ==
    /\ gw = Idle
    /\ inFlight = {}
    /\ settled = {}
    /\ procs = Idle

Init ==
    /\ now \in Instants
    /\ cache = {}
    /\ calls = 0
    /\ last = Idle
    /\ scIn = Idle
    /\ scOut = Idle
    /\ avIn = Idle
    /\ avOut = Idle
    /\ SearchIdle
    /\ ExtraIdle

\* The clock advances to a later instant (while an evaluation can still follow).
Tick ==
    /\ calls < MaxCalls
    /\ \E t \in Instants : t > now /\ now' = t
    /\ UNCHANGED <<cache, calls, last>>
    /\ UNCHANGED <<scoreVars, avgVars, searchVars, extraVars>>

\* The provider behaviours that differ for a request: an endpoint that is not
\* called answers (TRUE) by convention.
Behaviours(startDate, endDate, today) ==
    LET forecastEnd == today + maxForecastDays
        needsHistorical == startDate < today
        needsForecast == endDate >= today /\ startDate <= forecastEnd
        needsHistoricalFallback == endDate > forecastEnd
    IN  {out \in Outcomes :
            /\ ~needsHistorical => out.hist
            /\ ~needsForecast => out.fcst
            /\ ~(needsForecast /\ ~out.fcst) => out.fb
            /\ ~needsHistoricalFallback => out.avg}

\* A search evaluates the grid point over a date range.
Evaluate ==
    /\ calls < MaxCalls
    /\ \E rg \in ReqRanges, search \in RouteSearches :
        \E cacheMap \in CacheMaps(cache, rg[1], rg[2]) :
            LET toFetch == DatesToFetch(rg[1]..rg[2], cacheMap, now)
                outs == IF toFetch = {} THEN {AllOk}
                        ELSE Behaviours(SetMin(toFetch), SetMax(toFetch), Today(now))
                writes == IF toFetch = {} THEN {TRUE} ELSE BOOLEAN
            IN  \E out \in outs, writeOk \in writes :
                    \E weather \in {getGridPointWeather(cache, rg[1], rg[2], cacheMap,
                                                       out, writeOk, now)} :
                    \E ev \in {EvaluateGridPoint(weather, rg[1], rg[2], search.filters,
                                                  search.minScore, cacheMap, writeOk, now)} :
                        /\ last' = ev.observed
                        /\ cache' = ev.rowsAfter
    /\ calls' = calls + 1
    /\ UNCHANGED <<now, scoreVars, avgVars, searchVars, extraVars>>

Next == Tick \/ Evaluate

Spec == Init /\ [][Next]_vars

(***************************************************************************)
(* Scoring harness: the scoring functions applied to inputs drawn at Init  *)
(***************************************************************************)
ScoreTemps == {60, 68, 75, 82, 95, 101}

ScoreHumidities == {50, 70, 71, 85, 95}

ScoreWinds == {10, 15, 16, 22, 30}

ScoreTempFilters ==
    {[NoFilters EXCEPT !.tempMin = lo, !.tempMax = hi,
                       !.humidityMax = hum, !.windSpeedMax = wind] :
        lo \in {{}, {70}}, hi \in {{}, {80}, {90}},
        hum \in {{}, {70}}, wind \in {{}, {15}}}

InitScore ==
    /\ now = 0
    /\ cache = {}
    /\ calls = 0
    /\ last = Idle
    /\ scIn \in {i \in [tempHigh : ScoreTemps, tempLow : ScoreTemps,
                          humidity : ScoreHumidities, windSpeed : ScoreWinds,
                          filters : ScoreTempFilters] : i.tempLow <= i.tempHigh}
    /\ scOut = Idle
    /\ avIn = Idle
    /\ avOut = Idle
    /\ SearchIdle
    /\ ExtraIdle

\* The category scores of the day, as scoreSingleDay computes them; the
\* humidity and the wind are scored only when their filter is set (-1 else).
ScoreDay ==
    /\ scOut = Idle
    /\ scOut' = [temperature |->
                    scoreTemperature(scIn.tempHigh, scIn.tempLow, scIn.filters),
                 humidity |->
                    IF HumidityActive(scIn.filters)
                    THEN scoreHumidity(scIn.humidity, Val(scIn.filters.humidityMax))
                    ELSE -1,
                 wind |->
                    IF WindActive(scIn.filters)
                    THEN scoreWind(scIn.windSpeed, Val(scIn.filters.windSpeedMax))
                    ELSE -1]
    /\ UNCHANGED <<resolveVars, scIn, avgVars, searchVars, extraVars>>

NextScore == ScoreDay

SpecScore == InitScore /\ [][NextScore]_vars

(***************************************************************************)
(* Precipitation harness: scorePrecipitation applied to inputs drawn at    *)
(* Init                                                                    *)
(***************************************************************************)
PrecipChances == {0, 10, 30, 45, 60, 100}

PrecipTypes == {"none", "rain", "snow"}

\* The type lists of the filters: absent, empty, or some of the types.
PrecipTypeLists == {{}, {{}}, {{"rain"}}, {{"snow"}}, {{"none", "rain"}}}

PrecipFilters ==
    {[NoFilters EXCEPT !.precipChanceMax = max, !.precipTypesAllowed = allowed,
                       !.precipTypesExcluded = excluded] :
        max \in {{}, {0}, {20}, {50}},
        allowed \in PrecipTypeLists, excluded \in PrecipTypeLists}

InitPrecip ==
    /\ now = 0
    /\ cache = {}
    /\ calls = 0
    /\ last = Idle
    /\ scIn \in [precipChance : PrecipChances, precipType : PrecipTypes,
                 filters : PrecipFilters]
    /\ scOut = Idle
    /\ avIn = Idle
    /\ avOut = Idle
    /\ SearchIdle
    /\ ExtraIdle

\* The precipitation score of the day.
ScorePrecip ==
    /\ scOut = Idle
    /\ scOut' = [precipitation |->
                    scorePrecipitation(scIn.precipChance, scIn.precipType, scIn.filters)]
    /\ UNCHANGED <<resolveVars, scIn, avgVars, searchVars, extraVars>>

NextPrecip == ScorePrecip

SpecPrecip == InitPrecip /\ [][NextPrecip]_vars

(***************************************************************************)
(* Location scoring harness: scoreLocation applied to the records of a     *)
(* location and the filters of a search, drawn at Init                     *)
(***************************************************************************)
\* Bound on the number of daily records of the location.
MaxDays == 3

\* A day inside every filter below, a day slightly outside and a day far
\* outside.
LocationDays ==
    {[date |-> 0, tempHigh |-> 75, tempLow |-> 60, humidity |-> 50,
      windSpeed |-> 8, precipChance |-> 0, precipType |-> "none"],
     [date |-> 0, tempHigh |-> 95, tempLow |-> 82, humidity |-> 74,
      windSpeed |-> 17, precipChance |-> 30, precipType |-> "rain"],
     [date |-> 0, tempHigh |-> 60, tempLow |-> 45, humidity |-> 95,
      windSpeed |-> 30, precipChance |-> 100, precipType |-> "snow"]}

LocationFilters ==
    {[NoFilters EXCEPT !.tempMin = temp[1], !.tempMax = temp[2], !.humidityMax = hum,
                       !.windSpeedMax = wind, !.precipChanceMax = precip] :
        temp \in {<<{}, {}>>, <<{70}, {80}>>},
        hum \in {{}, {70}}, wind \in {{}, {15}}, precip \in {{}, {20}}}

InitLocation ==
    /\ now = 0
    /\ cache = {}
    /\ calls = 0
    /\ last = Idle
    /\ scIn \in [daily : UNION {[1..n -> LocationDays] : n \in 0..MaxDays},
                 filters : LocationFilters]
    /\ scOut = Idle
    /\ avIn = Idle
    /\ avOut = Idle
    /\ SearchIdle
    /\ ExtraIdle

ScoreLocation ==
    /\ scOut = Idle
    /\ scOut' = scoreLocation(scIn.daily, scIn.filters, "forecast")
    /\ UNCHANGED <<resolveVars, scIn, avgVars, searchVars, extraVars>>

NextLocation == ScoreLocation

SpecLocation == InitLocation /\ [][NextLocation]_vars

(***************************************************************************)
(* Rescoring harness: the filters of the search form are changed and the   *)
(* same records are scored again by the one scoringService instance        *)
(***************************************************************************)
\* Bound on the number of scoreLocation calls of a behaviour.
MaxScoreCalls == 3

RescoreDays ==
    {[date |-> 0, tempHigh |-> 75, tempLow |-> 62, humidity |-> 50,
      windSpeed |-> 8, precipChance |-> 0, precipType |-> "none"],
     [date |-> 0, tempHigh |-> 99, tempLow |-> 93, humidity |-> 50,
      windSpeed |-> 8, precipChance |-> 0, precipType |-> "none"],
     [date |-> 0, tempHigh |-> 55, tempLow |-> 40, humidity |-> 50,
      windSpeed |-> 8, precipChance |-> 0, precipType |-> "none"]}

\* The values the form gives to the fields it sets.
RescoreValues == [tempMin |-> {60}, tempMax |-> {90}]

\* updateFilter of the filter panel: a copy of the filters with one field set.
updateFilter(filters, key, value) == [filters EXCEPT ![key] = value]

\* Variant: the service answers from its previous result when it has one.
ScoreCall_Memo(history, daily, filters) ==
    IF history # <<>> THEN history[Len(history)].result
    ELSE scoreLocation(daily, filters, "forecast")

\* A call of scoringService.scoreLocation after the calls of history: the
\* class has no field, the call reads its arguments only.
ScoreCall(history, daily, filters) == scoreLocation(daily, filters, "forecast")

InitRescore ==
    /\ now = 0
    /\ cache = {}
    /\ calls = 0
    /\ last = Idle
    /\ scIn \in [daily : UNION {[1..n -> RescoreDays] : n \in 1..2},
                 filters : {NoFilters}, added : {{}}]
    /\ scOut = <<>>
    /\ avIn = Idle
    /\ avOut = Idle
    /\ SearchIdle
    /\ ExtraIdle

\* One field is added to the filters.
UpdateFilter ==
    /\ \E key \in DOMAIN RescoreValues :
          /\ ~IsDef(scIn.filters[key])
          /\ scIn' = [scIn EXCEPT !.filters = updateFilter(@, key, RescoreValues[key]),
                                  !.added = @ \cup {key}]
    /\ UNCHANGED <<resolveVars, scOut, avgVars, searchVars, extraVars>>

\* The range slider sets tempMin and tempMax together.
UpdateRange ==
    /\ scIn.filters = NoFilters
    /\ scIn' = [scIn EXCEPT !.filters = [@ EXCEPT !.tempMin = RescoreValues.tempMin,
                                                  !.tempMax = RescoreValues.tempMax],
                            !.added = {"tempMin", "tempMax"}]
    /\ UNCHANGED <<resolveVars, scOut, avgVars, searchVars, extraVars>>

\* The records are scored with the current filters.
ScoreNow ==
    /\ Len(scOut) < MaxScoreCalls
    /\ scOut' = Append(scOut, [filters |-> scIn.filters, added |-> scIn.added,
                               result |-> ScoreCall(scOut, scIn.daily, scIn.filters)])
    /\ UNCHANGED <<resolveVars, scIn, avgVars, searchVars, extraVars>>

NextRescore == UpdateFilter \/ UpdateRange \/ ScoreNow

SpecRescore == InitRescore /\ [][NextRescore]_vars

(***************************************************************************)
(* Averaging fallback (openmeteo.provider.ts), year by year                *)
(*                                                                         *)
(* fetchHistoricalAverages above is what getWeather sees of it: the        *)
(* estimate, when some sampled year answered.  Here the years are sampled  *)
(* one by one.  A calendar date is [year, md]; md is a position in the     *)
(* window of MonthDay, and Feb 29 exists in leap years only.               *)
(***************************************************************************)
historicalYearsToAverage == 5

MonthDay == <<"02-27", "02-28", "02-29", "03-01", "03-02">>

\* Leap years of the Date object, for the years 1901..2099.
IsLeapYear(year) == year % 4 = 0

ValidDate(d) ==
    /\ d.md \in 1..Len(MonthDay)
    /\ MonthDay[d.md] = "02-29" => IsLeapYear(d.year)

\* Date.prototype.setFullYear: month and day are kept, and Feb 29 of a year
\* without it overflows to Mar 1.
setFullYear(d, year) ==
    IF MonthDay[d.md] = "02-29" /\ ~IsLeapYear(year)
    THEN [year |-> year, md |-> d.md + 1]
    ELSE [year |-> year, md |-> d.md]

\* The calendar days from startDate to endDate, of one year, in order.
CalendarDays(startDate, endDate) ==
    LET mds == Ascending({md \in startDate.md..endDate.md :
                             ValidDate([year |-> startDate.year, md |-> md])})
    IN  [i \in 1..Len(mds) |-> [year |-> startDate.year, md |-> mds[i]]]

\* The record the archive endpoint gives for a calendar day (parseResponse
\* with isHistorical); precipAmount is in hundredths of an inch.
ArchiveDay(d) ==
    LET amount == IF (d.year + d.md) % 3 = 0 THEN 25 ELSE 0
    IN  [date |-> d,
         tempHigh |-> 60 + 5 * (d.year % 5) + d.md,
         tempLow |-> 45 + 5 * (d.year % 5) + d.md,
         humidity |-> 40 + 7 * (d.year % 3) + d.md,
         windSpeed |-> 5 + (d.year % 4),
         precipChance |-> IF amount > 0 THEN 100 ELSE 0,
         precipType |-> IF amount = 0 THEN "none"
                        ELSE IF d.year % 2 = 0 THEN "rain" ELSE "snow",
         precipAmount |-> amount]

\* fetchHistorical of a calendar range: one record per day of the range.
fetchHistoricalYear(histStart, histEnd) ==
    LET days == CalendarDays(histStart, histEnd)
    IN  [i \in 1..Len(days) |-> ArchiveDay(days[i])]

\* The loop over yearOffset: the data of the years whose fetch answered,
\* most recent year first.
RECURSIVE YearsData(_, _, _, _)
YearsData(startDate, endDate, yearOk, yearOffset) ==
    IF yearOffset > historicalYearsToAverage THEN <<>>
    ELSE LET histStart == setFullYear(startDate, startDate.year - yearOffset)
             histEnd == setFullYear(endDate, startDate.year - yearOffset)
             rest == YearsData(startDate, endDate, yearOk, yearOffset + 1)
         IN  IF yearOk[yearOffset]
             THEN <<fetchHistoricalYear(histStart, histEnd)>> \o rest
             ELSE rest

\* dayDataPoints: yearData[dayIndex] of every year that has one (dayIndex
\* counted from 1 here).
RECURSIVE DayDataPoints(_, _)
DayDataPoints(yearsData, dayIndex) ==
    IF yearsData = <<>> THEN <<>>
    ELSE LET yearData == Head(yearsData)
             rest == DayDataPoints(Tail(yearsData), dayIndex)
         IN  IF dayIndex <= Len(yearData) THEN <<yearData[dayIndex]>> \o rest
             ELSE rest

\* reduce((sum, d) => sum + d[field], 0)
RECURSIVE SumField(_, _)
SumField(points, field) ==
    IF points = <<>> THEN 0
    ELSE Head(points)[field] + SumField(Tail(points), field)

\* Variant: count >= maxCount, the last type inserted wins among equal counts.
MostCommonPrecipType_LastWins(points) ==
    LET idx == 1..Len(points)
        Count(type) == Cardinality({i \in idx : points[i].precipType = type})
        First(type) == SetMin({i \in idx : points[i].precipType = type})
        types == {points[i].precipType : i \in idx}
    IN  CHOOSE type \in types :
            \A other \in types :
                \/ Count(type) > Count(other)
                \/ Count(type) = Count(other) /\ First(type) >= First(other)

\* The most common precipType; among equal counts the first one inserted in
\* precipTypeCounts wins (count > maxCount is strict).
MostCommonPrecipType(points) ==
    LET idx == 1..Len(points)
        Count(type) == Cardinality({i \in idx : points[i].precipType = type})
        First(type) == SetMin({i \in idx : points[i].precipType = type})
        types == {points[i].precipType : i \in idx}
    IN  CHOOSE type \in types :
            \A other \in types :
                \/ Count(type) > Count(other)
                \/ Count(type) = Count(other) /\ First(type) <= First(other)

\* The body of the dayIndex loop for a day that has data points.
AverageDay(targetDate, points) ==
    LET n == Len(points)
        yearsWithPrecip == Cardinality({i \in 1..n : points[i].precipAmount > 0})
    IN  [date |-> targetDate,
         tempHigh |-> Round(SumField(points, "tempHigh"), n),
         tempLow |-> Round(SumField(points, "tempLow"), n),
         humidity |-> Round(SumField(points, "humidity"), n),
         windSpeed |-> Round(SumField(points, "windSpeed"), n),
         precipChance |-> Round(yearsWithPrecip * 100, n),
         precipType |-> MostCommonPrecipType(points),
         precipAmount |-> Round(SumField(points, "precipAmount"), n)]

RECURSIVE AverageFrom(_, _, _)
AverageFrom(yearsData, targetDays, dayIndex) ==
    IF dayIndex > Len(targetDays) THEN <<>>
    ELSE LET points == DayDataPoints(yearsData, dayIndex)
             rest == AverageFrom(yearsData, targetDays, dayIndex + 1)
         IN  IF points = <<>> THEN rest
             ELSE <<AverageDay(targetDays[dayIndex], points)>> \o rest

averageHistoricalData(yearsData, startDate, endDate) ==
    AverageFrom(yearsData, CalendarDays(startDate, endDate), 1)

\* fetchHistoricalAverages with the outcome of each year's fetch given:
\* it throws when no year answered.
fetchHistoricalAveragesOfYears(startDate, endDate, yearOk) ==
    LET yearsData == YearsData(startDate, endDate, yearOk, 1)
    IN  [threw |-> yearsData = <<>>,
         yearsData |-> yearsData,
         results |-> IF yearsData = <<>> THEN <<>>
                     ELSE averageHistoricalData(yearsData, startDate, endDate)]

(***************************************************************************)
(* Averaging harness: one call of fetchHistoricalAverages                  *)
(***************************************************************************)
AvgTargetYears == {2027, 2028}

AvgRanges ==
    {rg \in [startDate : [year : AvgTargetYears, md : 1..Len(MonthDay)],
             endDate : [year : AvgTargetYears, md : 1..Len(MonthDay)]] :
        /\ rg.startDate.year = rg.endDate.year
        /\ rg.startDate.md <= rg.endDate.md
        /\ ValidDate(rg.startDate)
        /\ ValidDate(rg.endDate)}

InitAvg ==
    /\ now = 0
    /\ cache = {}
    /\ calls = 0
    /\ last = Idle
    /\ scIn = Idle
    /\ scOut = Idle
    /\ avIn \in [range : AvgRanges, yearOk : [1..historicalYearsToAverage -> BOOLEAN]]
    /\ avOut = Idle
    /\ SearchIdle
    /\ ExtraIdle

EstimateRange ==
    /\ avOut = Idle
    /\ avOut' = fetchHistoricalAveragesOfYears(avIn.range.startDate,
                                               avIn.range.endDate, avIn.yearOk)
    /\ UNCHANGED <<resolveVars, scoreVars, avIn, searchVars, extraVars>>

NextAvg == EstimateRange

SpecAvg == InitAvg /\ [][NextAvg]_vars

(***************************************************************************)
(* POST /search, the whole request (validators/weather.ts, weather.routes) *)
(*                                                                         *)
(* req is the request body with the grid points its options select.  What  *)
(* getGridPointWeather does for a grid point is given by the point's kind. *)
(***************************************************************************)
MAX_RANGE_DIFF_DAYS == 90
DEFAULT_LIMIT == 50
DEFAULT_MIN_SCORE == 0
batchSize == 10
HIGH_SCORE == 70

\* Bound on the number of full batches of grid points.
MaxBatches == 5

\* weatherDateRangeSchema: the two refinements.
weatherDateRangeSchema(dateRange) ==
    LET diffDays == dateRange.endDate - dateRange.startDate
    IN  /\ dateRange.endDate >= dateRange.startDate
        /\ diffDays <= MAX_RANGE_DIFF_DAYS

GridPointKinds == {"fine", "humid", "poor", "fail"}

\* What getGridPointWeather gives for a grid point of the kind.
KindWeather(kind) ==
    LET day == [date |-> 0,
                tempHigh |-> IF kind = "poor" THEN 60 ELSE 75,
                tempLow |-> IF kind = "poor" THEN 45 ELSE 60,
                humidity |-> IF kind = "fine" THEN 50 ELSE 85,
                windSpeed |-> 8, precipChance |-> 0, precipType |-> "none"]
    IN  [threw |-> kind = "fail",
         daily |-> IF kind = "fail" THEN <<>> ELSE <<day>>,
         dataSource |-> "forecast"]

SearchFilters == [NoFilters EXCEPT !.tempMin = {70}, !.humidityMax = {65}]

\* Variant: the closure lets the exception of getGridPointWeather through.
scoreGridPoint_Uncaught(id, kind, filters) ==
    LET weather == KindWeather(kind)
    IN  [gridPointId |-> id,
         rejected |-> weather.threw,
         isNull |-> weather.threw,
         score |-> IF weather.threw THEN -1
                   ELSE locationScore(weather.daily, filters)]

\* The closure mapped over a batch: null when getGridPointWeather throws,
\* else the scored location.  The closure itself never rejects.
scoreGridPoint(id, kind, filters) ==
    LET weather == KindWeather(kind)
    IN  [gridPointId |-> id,
         rejected |-> FALSE,
         isNull |-> weather.threw,
         score |-> IF weather.threw THEN -1
                   ELSE locationScore(weather.daily, filters)]

\* batch.map over gridPoints.slice(i, i + batchSize).
BatchResults(gridPoints, i, filters) ==
    [k \in 1..Min(batchSize, Len(gridPoints) - i) |->
        scoreGridPoint(i + k, gridPoints[i + k], filters)]

\* The loop adding the successful results of a batch.
RECURSIVE Retain(_, _)
Retain(batchResults, minScore) ==
    IF batchResults = <<>> THEN <<>>
    ELSE LET result == Head(batchResults)
             rest == Retain(Tail(batchResults), minScore)
         IN  IF ~result.isNull /\ result.score >= minScore
             THEN <<[gridPointId |-> result.gridPointId, score |-> result.score]>> \o rest
             ELSE rest

\* Variant: the loop goes on until there are more than twice the limit.
EarlyStop_Strict(scored, limit) ==
    LET highScoreResults == {j \in 1..Len(scored) : scored[j].score >= HIGH_SCORE}
    IN  Cardinality(highScoreResults) > limit * 2

\* The early-stop test after a batch.
EarlyStop(scored, limit) ==
    LET highScoreResults == {j \in 1..Len(scored) : scored[j].score >= HIGH_SCORE}
    IN  Cardinality(highScoreResults) >= limit * 2

\* Array.prototype.sort with (a, b) => b.score - a.score (stable).
SortByScore(scored) ==
    LET n == Len(scored)
        Before(j) == {k \in 1..n : \/ scored[k].score > scored[j].score
                                   \/ scored[k].score = scored[j].score /\ k < j}
        rank == [j \in 1..n |-> Cardinality(Before(j)) + 1]
    IN  [r \in 1..n |-> scored[CHOOSE j \in 1..n : rank[j] = r]]

\* Variant: the sorted list is not cut to the limit.
SortedResults_NoSlice(scored, limit) == SortByScore(scored)

\* sort(...).slice(0, limit)
SortedResults(scored, limit) == SubSeq(SortByScore(scored), 1, Min(limit, Len(scored)))

OptOr(x, default) == IF IsDef(x) THEN Val(x) ELSE default

\* The grid points of a request come in batches of one of these contents,
\* followed or not by a last, shorter batch.
BatchPatterns ==
    [allFine |-> [k \in 1..batchSize |-> "fine"],
     allFail |-> [k \in 1..batchSize |-> "fail"],
     mixed |-> [k \in 1..batchSize |->
                   IF k % 4 = 1 \/ k > 8 THEN "fine"
                   ELSE IF k % 4 = 2 THEN "humid"
                   ELSE IF k % 4 = 3 THEN "poor" ELSE "fail"]]

ShortBatch == <<"fine", "fail", "humid">>

GridPointsOf(layout, tail) ==
    [i \in 1..(batchSize * Len(layout) + Len(tail)) |->
        IF i <= batchSize * Len(layout)
        THEN BatchPatterns[layout[((i - 1) \div batchSize) + 1]][((i - 1) % batchSize) + 1]
        ELSE tail[i - batchSize * Len(layout)]]

GridLayouts(maxBatches) ==
    {GridPointsOf(layout, tail) :
        layout \in UNION {[1..n -> DOMAIN BatchPatterns] : n \in 0..maxBatches},
        tail \in {<<>>, ShortBatch}}

\* The date ranges of the requests (day indices): 1, 90, 91 and 92 days, and
\* an end before the start.
SearchRanges ==
    {[startDate |-> 0, endDate |-> 0], [startDate |-> 0, endDate |-> 89],
     [startDate |-> 0, endDate |-> 90], [startDate |-> 0, endDate |-> 91],
     [startDate |-> 5, endDate |-> 4]}

SearchRequests ==
    [filters : {SearchFilters},
     dateRange : {[startDate |-> 0, endDate |-> 0]},
     limit : {{}, {1}, {5}, {10}},
     minScore : {{}, {60}, {80}},
     gridPoints : GridLayouts(MaxBatches),
     gridPointsOk : {TRUE}]
    \cup
    [filters : {SearchFilters},
     dateRange : SearchRanges,
     limit : {{10}},
     minScore : {{}},
     gridPoints : GridLayouts(1),
     gridPointsOk : BOOLEAN]

InitSearch ==
    /\ now = 0
    /\ cache = {}
    /\ calls = 0
    /\ last = Idle
    /\ scIn = Idle
    /\ scOut = Idle
    /\ avIn = Idle
    /\ avOut = Idle
    /\ req \in SearchRequests
    /\ pos = -1
    /\ scoredLocations = <<>>
    /\ evaluated = {}
    /\ response = Idle
    /\ ExtraIdle

\* The handler up to the batch loop: validation (400), the grid point query
\* (500 from the outer catch when it fails) and the empty answer.
Receive ==
    /\ pos = -1
    /\ response = Idle
    /\ IF ~weatherDateRangeSchema(req.dateRange)
       THEN response' = [status |-> 400, results |-> <<>>] /\ pos' = pos
       ELSE IF ~req.gridPointsOk
       THEN response' = [status |-> 500, results |-> <<>>] /\ pos' = pos
       ELSE IF Len(req.gridPoints) = 0
       THEN response' = [status |-> 200, results |-> <<>>] /\ pos' = pos
       ELSE response' = response /\ pos' = 0
    /\ UNCHANGED <<resolveVars, scoreVars, avgVars, req, scoredLocations, evaluated, extraVars>>

\* One iteration of the batch loop; the iteration that leaves the loop also
\* sorts, slices and answers.  A rejected closure rejects Promise.all and the
\* outer catch answers 500.
ProcessBatch ==
    /\ pos >= 0
    /\ response = Idle
    /\ LET limit == OptOr(req.limit, DEFAULT_LIMIT)
           minScore == OptOr(req.minScore, DEFAULT_MIN_SCORE)
       IN  \E batchResults \in {BatchResults(req.gridPoints, pos, req.filters)} :
           \E scored \in {scoredLocations \o Retain(batchResults, minScore)} :
              /\ evaluated' = evaluated \cup {pos + k : k \in 1..Len(batchResults)}
              /\ IF \E k \in 1..Len(batchResults) : batchResults[k].rejected
                 THEN /\ response' = [status |-> 500, results |-> <<>>]
                      /\ UNCHANGED <<scoredLocations, pos>>
                 ELSE /\ scoredLocations' = scored
                      /\ IF EarlyStop(scored, limit)
                            \/ pos + batchSize >= Len(req.gridPoints)
                         THEN /\ response' = [status |-> 200,
                                              results |-> SortedResults(scored, limit)]
                              /\ pos' = pos
                         ELSE /\ response' = response
                              /\ pos' = pos + batchSize
    /\ UNCHANGED <<resolveVars, scoreVars, avgVars, req, extraVars>>

NextSearch == Receive \/ ProcessBatch

SpecSearch == InitSearch /\ [][NextSearch]_vars

(***************************************************************************)
(* POST /search with the closures of a batch settling one by one           *)
(*                                                                         *)
(* batch.map starts the closure of every grid point of the batch (each     *)
(* runs up to its first await), Promise.all is fulfilled when all of them  *)
(* have settled, and the loop body goes on after the await.                *)
(***************************************************************************)
BatchRequests ==
    [filters : {SearchFilters},
     dateRange : {[startDate |-> 0, endDate |-> 0]},
     limit : {{}, {3}},
     minScore : {{80}},
     gridPoints : {GridPointsOf(<<"mixed", "allFine">>, ShortBatch),
                   GridPointsOf(<<"allFine">>, ShortBatch)},
     gridPointsOk : {TRUE}]

InitBatch ==
    /\ now = 0
    /\ cache = {}
    /\ calls = 0
    /\ last = Idle
    /\ scIn = Idle
    /\ scOut = Idle
    /\ avIn = Idle
    /\ avOut = Idle
    /\ req \in BatchRequests
    /\ pos = -1
    /\ scoredLocations = <<>>
    /\ evaluated = {}
    /\ response = Idle
    /\ ExtraIdle

\* gridPoints.slice(i, i + batchSize), as indices.
BatchIndexes(i) == {i + k : k \in 1..Min(batchSize, Len(req.gridPoints) - i)}

\* The results of the settled closures, in the order of the batch.
SettledResults ==
    LET ids == Ascending({r.gridPointId : r \in settled})
    IN  [k \in 1..Len(ids) |-> CHOOSE r \in settled : r.gridPointId = ids[k]]

\* batch.map(async gridPoint => ...): the closures of the batch at i start.
StartBatch ==
    /\ pos >= 0
    /\ response = Idle
    /\ pos + 1 \notin evaluated
    /\ inFlight' = inFlight \cup BatchIndexes(pos)
    /\ evaluated' = evaluated \cup BatchIndexes(pos)
    /\ UNCHANGED <<resolveVars, scoreVars, avgVars, req, pos, scoredLocations, response,
                   settled, providerVars, concVars>>

\* One closure settles: with the scored location, or with null when
\* getGridPointWeather threw.
Settle ==
    /\ \E i \in inFlight :
          /\ inFlight' = inFlight \ {i}
          /\ settled' = settled \cup {scoreGridPoint(i, req.gridPoints[i], req.filters)}
    /\ UNCHANGED <<resolveVars, scoreVars, avgVars, searchVars, providerVars, concVars>>

\* Variant: the loop goes on as soon as one closure has settled.
JoinBatch_First ==
    /\ pos >= 0
    /\ response = Idle
    /\ pos + 1 \in evaluated
    /\ settled # {}
    /\ LET limit == OptOr(req.limit, DEFAULT_LIMIT)
           minScore == OptOr(req.minScore, DEFAULT_MIN_SCORE)
       IN  \E batchResults \in {SettledResults} :
           \E scored \in {scoredLocations \o Retain(batchResults, minScore)} :
              IF \E k \in 1..Len(batchResults) : batchResults[k].rejected
              THEN /\ response' = [status |-> 500, results |-> <<>>]
                   /\ UNCHANGED <<scoredLocations, pos>>
              ELSE /\ scoredLocations' = scored
                   /\ IF EarlyStop(scored, limit)
                         \/ pos + batchSize >= Len(req.gridPoints)
                      THEN /\ response' = [status |-> 200,
                                           results |-> SortedResults(scored, limit)]
                           /\ pos' = pos
                      ELSE /\ response' = response
                           /\ pos' = pos + batchSize
    /\ settled' = {}
    /\ UNCHANGED <<resolveVars, scoreVars, avgVars, req, evaluated, inFlight,
                   providerVars, concVars>>

\* await Promise.all(...) is fulfilled, every closure of the batch having
\* settled: the rest of the loop body, and after the last iteration the
\* sort, the slice and the response.
JoinBatch ==
    /\ pos >= 0
    /\ response = Idle
    /\ pos + 1 \in evaluated
    /\ inFlight = {}
    /\ LET limit == OptOr(req.limit, DEFAULT_LIMIT)
           minScore == OptOr(req.minScore, DEFAULT_MIN_SCORE)
       IN  \E batchResults \in {SettledResults} :
           \E scored \in {scoredLocations \o Retain(batchResults, minScore)} :
              IF \E k \in 1..Len(batchResults) : batchResults[k].rejected
              THEN /\ response' = [status |-> 500, results |-> <<>>]
                   /\ UNCHANGED <<scoredLocations, pos>>
              ELSE /\ scoredLocations' = scored
                   /\ IF EarlyStop(scored, limit)
                         \/ pos + batchSize >= Len(req.gridPoints)
                      THEN /\ response' = [status |-> 200,
                                           results |-> SortedResults(scored, limit)]
                           /\ pos' = pos
                      ELSE /\ response' = response
                           /\ pos' = pos + batchSize
    /\ settled' = {}
    /\ UNCHANGED <<resolveVars, scoreVars, avgVars, req, evaluated, inFlight,
                   providerVars, concVars>>

NextBatch == Receive \/ StartBatch \/ Settle \/ JoinBatch

SpecBatch == InitBatch /\ [][NextBatch]_vars

\* The event loop runs the handler whenever it can go on, and every started
\* closure settles.
SpecBatchFair == SpecBatch /\ WF_vars(NextBatch)

(***************************************************************************)
(* Two resolutions of the same grid point running concurrently (two        *)
(* searches over the same date range).  Each call of getGridPointWeather   *)
(* is cut at its awaits: the findMany read, the provider request, the      *)
(* write-back transaction, and the synchronous rest up to the return.      *)
(* The read is one statement and the write-back one transaction: each is   *)
(* one step on the table.  The transaction commits or rejects.             *)
(***************************************************************************)
ConcProcs == {1, 2}

\* The hour at which a call runs: the second call runs an hour later, on
\* the same day, so that the rows of the two calls differ in fetchedAt.
ConcInstant(p) == now + p - 1

ConcRanges == {<<1, 2>>, <<1, 3>>}

\* The table when the two calls start: empty, or holding the rows a
\* resolution of the range wrote a day before.
ConcCaches(rg) == {{}, cacheWeatherData({}, fetchForecast(rg[1], rg[2], 0), 0, 0)}

InitConc ==
    /\ now = 24
    /\ \E rg \in ConcRanges :
          /\ cache \in ConcCaches(rg)
          /\ procs = [p \in ConcProcs |->
                        [pc |-> "read", startDate |-> rg[1], endDate |-> rg[2],
                         cacheMap |-> <<>>, datesToFetch |-> {}, fetched |-> <<>>,
                         threw |-> FALSE, daily |-> <<>>]]
    /\ calls = 0
    /\ last = Idle
    /\ scIn = Idle
    /\ scOut = Idle
    /\ avIn = Idle
    /\ avOut = Idle
    /\ SearchIdle
    /\ gw = Idle
    /\ inFlight = {}
    /\ settled = {}

\* await prisma.weatherCache.findMany, the cache map and datesToFetch.
ReadCache(p) ==
    /\ procs[p].pc = "read"
    /\ \E cacheMap \in CacheMaps(cache, procs[p].startDate, procs[p].endDate) :
       \E toFetch \in {DatesToFetch(procs[p].startDate..procs[p].endDate,
                                    cacheMap, ConcInstant(p))} :
          procs' = [procs EXCEPT ![p].cacheMap = cacheMap,
                                 ![p].datesToFetch = toFetch,
                                 ![p].pc = IF toFetch = {} THEN "build" ELSE "fetch"]
    /\ UNCHANGED <<resolveVars, scoreVars, avgVars, searchVars, providerVars, batchVars>>

\* await this.provider.getWeather for the span of the dates to fetch.
FetchWeather(p) ==
    /\ procs[p].pc = "fetch"
    /\ \E out \in Behaviours(SetMin(procs[p].datesToFetch), SetMax(procs[p].datesToFetch),
                             Today(ConcInstant(p))) :
          procs' = [procs EXCEPT
                      ![p].fetched = getWeather(SetMin(procs[p].datesToFetch),
                                                SetMax(procs[p].datesToFetch),
                                                Today(ConcInstant(p)), out, ConcInstant(p)),
                      ![p].pc = "write"]
    /\ UNCHANGED <<resolveVars, scoreVars, avgVars, searchVars, providerVars, batchVars>>

\* await this.cacheWeatherData: the transaction of the upserts commits, or
\* it rejects and the call throws.
WriteBack(p) ==
    /\ procs[p].pc = "write"
    /\ \E writeOk \in BOOLEAN :
          IF writeOk
          THEN /\ cache' = cacheWeatherData(cache, procs[p].fetched,
                                            Today(ConcInstant(p)), ConcInstant(p))
               /\ procs' = [procs EXCEPT ![p].pc = "build"]
          ELSE /\ cache' = cache
               /\ procs' = [procs EXCEPT ![p].pc = "done", ![p].threw = TRUE]
    /\ UNCHANGED <<now, calls, last, scoreVars, avgVars, searchVars, providerVars, batchVars>>

\* "Add to cache map", "Build result from cache map", return.
BuildResult(p) ==
    /\ procs[p].pc = "build"
    /\ \E merged \in {IF procs[p].datesToFetch = {} THEN procs[p].cacheMap
                      ELSE AddToCacheMap(procs[p].cacheMap, procs[p].fetched,
                                         Today(ConcInstant(p)), ConcInstant(p))} :
          procs' = [procs EXCEPT
                      ![p].daily = BuildDaily(Ascending(procs[p].startDate..procs[p].endDate),
                                              merged),
                      ![p].pc = "done"]
    /\ UNCHANGED <<resolveVars, scoreVars, avgVars, searchVars, providerVars, batchVars>>

NextConc ==
    \E p \in ConcProcs : ReadCache(p) \/ FetchWeather(p) \/ WriteBack(p) \/ BuildResult(p)

SpecConc == InitConc /\ [][NextConc]_vars

(***************************************************************************)
(* Provider harness: one getWeather request, endpoint call by endpoint     *)
(* call.  gw holds the request, the position in the method (pc), the       *)
(* results pushed so far and the endpoint calls issued so far, in order.   *)
(***************************************************************************)
ProviderInstants == {24, 54}

ProviderDates == {0, 1, 2, 3, 17, 18, 19, 20}

ProviderRanges == {rg \in ProviderDates \X ProviderDates : rg[1] <= rg[2]}

forecastEnd(g) == g.today + maxForecastDays

needsHistorical(g) == g.startDate < g.today

needsForecast(g) == g.endDate >= g.today /\ g.startDate <= forecastEnd(g)

needsHistoricalFallback(g) == g.endDate > forecastEnd(g)

\* Variant: the historical range runs through today.
histEnd_Today(g) == IF g.endDate < g.today THEN g.endDate ELSE g.today

\* The end of the historical range: the end of the request, or yesterday.
histEnd(g) == IF g.endDate < g.today THEN g.endDate ELSE g.today - 1

fcstStart(g) == IF g.startDate >= g.today THEN g.startDate ELSE g.today

fcstEnd(g) == IF g.endDate <= forecastEnd(g) THEN g.endDate ELSE forecastEnd(g)

fallbackStart(g) == Max(forecastEnd(g) + 1, g.startDate)

\* An endpoint call issued at position step of the method; ok tells whether
\* it answered, and an answering call pushes its records on results.
Issue(g, step, src, from, to, ok, records, next) ==
    [g EXCEPT !.pc = next,
              !.issued = Append(@, [step |-> step, src |-> src,
                                    from |-> from, to |-> to, ok |-> ok]),
              !.results = IF ok THEN @ \o records ELSE @]

InitProvider ==
    /\ now \in ProviderInstants
    /\ cache = {}
    /\ calls = 0
    /\ last = Idle
    /\ scIn = Idle
    /\ scOut = Idle
    /\ avIn = Idle
    /\ avOut = Idle
    /\ SearchIdle
    /\ gw = Idle
    /\ inFlight = {}
    /\ settled = {}
    /\ procs = Idle

\* getWeather is called for a range.
GwRequest ==
    /\ IF gw = Idle THEN TRUE ELSE gw.pc = "done"
    /\ \E rg \in ProviderRanges :
          gw' = [pc |-> "historical", startDate |-> rg[1], endDate |-> rg[2],
                 today |-> Today(now), at |-> now,
                 results |-> <<>>, issued |-> <<>>, returned |-> <<>>]
    /\ UNCHANGED <<resolveVars, scoreVars, avgVars, searchVars, batchVars, concVars>>

\* "Fetch historical data if needed (for past dates)".
GwHistorical ==
    /\ gw # Idle /\ gw.pc = "historical"
    /\ IF needsHistorical(gw) /\ gw.startDate <= histEnd(gw)
       THEN \E ok \in BOOLEAN :
               gw' = Issue(gw, "historical", "historical", gw.startDate, histEnd(gw), ok,
                           fetchHistorical(gw.startDate, histEnd(gw), gw.at), "forecast")
       ELSE gw' = [gw EXCEPT !.pc = "forecast"]
    /\ UNCHANGED <<resolveVars, scoreVars, avgVars, searchVars, batchVars, concVars>>

\* Variant: a failed forecast call is not followed by the fallback.
GwForecast_NoFallback ==
    /\ gw # Idle /\ gw.pc = "forecast"
    /\ IF needsForecast(gw)
       THEN \E ok \in BOOLEAN :
               gw' = Issue(gw, "forecast", "forecast", fcstStart(gw), fcstEnd(gw), ok,
                           fetchForecast(fcstStart(gw), fcstEnd(gw), gw.at), "beyond")
       ELSE gw' = [gw EXCEPT !.pc = "beyond"]
    /\ UNCHANGED <<resolveVars, scoreVars, avgVars, searchVars, batchVars, concVars>>

\* "Fetch forecast data if needed": the try block; a failure enters the catch.
GwForecast ==
    /\ gw # Idle /\ gw.pc = "forecast"
    /\ IF needsForecast(gw)
       THEN \E ok \in BOOLEAN :
               gw' = Issue(gw, "forecast", "forecast", fcstStart(gw), fcstEnd(gw), ok,
                           fetchForecast(fcstStart(gw), fcstEnd(gw), gw.at),
                           IF ok THEN "beyond" ELSE "fallback")
       ELSE gw' = [gw EXCEPT !.pc = "beyond"]
    /\ UNCHANGED <<resolveVars, scoreVars, avgVars, searchVars, batchVars, concVars>>

\* The catch block of the forecast call: the averages of the same dates.
GwFallback ==
    /\ gw # Idle /\ gw.pc = "fallback"
    /\ \E ok \in BOOLEAN :
          gw' = Issue(gw, "fallback", "averaged", fcstStart(gw), fcstEnd(gw), ok,
                      fetchHistoricalAverages(fcstStart(gw), fcstEnd(gw), gw.at), "beyond")
    /\ UNCHANGED <<resolveVars, scoreVars, avgVars, searchVars, batchVars, concVars>>

\* "For dates beyond forecast range, use historical averages".
GwBeyond ==
    /\ gw # Idle /\ gw.pc = "beyond"
    /\ IF needsHistoricalFallback(gw)
       THEN \E ok \in BOOLEAN :
               gw' = Issue(gw, "beyond", "averaged", fallbackStart(gw), gw.endDate, ok,
                           fetchHistoricalAverages(fallbackStart(gw), gw.endDate, gw.at),
                           "return")
       ELSE gw' = [gw EXCEPT !.pc = "return"]
    /\ UNCHANGED <<resolveVars, scoreVars, avgVars, searchVars, batchVars, concVars>>

\* "Sort by date and remove duplicates", and return.
GwReturn ==
    /\ gw # Idle /\ gw.pc = "return"
    /\ gw' = [gw EXCEPT !.pc = "done",
                        !.returned = SortByDate(UniqueByDate(gw.results, gw.today, {}))]
    /\ UNCHANGED <<resolveVars, scoreVars, avgVars, searchVars, batchVars, concVars>>

NextProvider ==
    GwRequest \/ GwHistorical \/ GwForecast \/ GwFallback \/ GwBeyond \/ GwReturn

SpecProvider == InitProvider /\ [][NextProvider]_vars

(***************************************************************************)
(* Observations of the last evaluation used by the properties              *)
(***************************************************************************)
Evaluated == calls > 0

LastDates == last.startDate..last.endDate

LastToday == Today(last.at)

\* The date is covered by an endpoint call that answered.
Answered(d) == \E c \in last.sourceCalls : c.ok /\ c.from <= d /\ d <= c.to

\* Every endpoint call of the last resolution answered.
AllAnswered == \A c \in last.sourceCalls : c.ok

ReturnedDates == {last.daily[i].date : i \in 1..Len(last.daily)}

ReturnedFor(d) == last.daily[CHOOSE i \in 1..Len(last.daily) : last.daily[i].date = d]

FetchedDates == {last.fetched[i].date : i \in 1..Len(last.fetched)}

FetchedFor(d) == last.fetched[CHOOSE i \in 1..Len(last.fetched) : last.fetched[i].date = d]

FreshHit(d) == d \in LastDates /\ d \notin last.datesToFetch

\* The last resolution completed and returned a record for every date asked.
CompletedInFull ==
    /\ Evaluated
    /\ ~last.threw
    /\ last.writeOk
    /\ ReturnedDates = LastDates

(***************************************************************************)
(* C1  Idempotence of resolve.  When a resolution has completed with a     *)
(* working cache, every endpoint it called has answered and it returned    *)
(* every date, a call with the same arguments at the same instant issues   *)
(* no provider call and returns the same daily records.                    *)
(***************************************************************************)
C1_ResolveIdempotent ==
    [][(/\ calls' = calls + 1
        /\ CompletedInFull
        /\ AllAnswered
        /\ last.at = now
        /\ last'.startDate = last.startDate
        /\ last'.endDate = last.endDate
        /\ last'.writeOk)
       => (/\ ~last'.providerCalled
           /\ ~last'.threw
           /\ last'.daily = last.daily)]_vars

(***************************************************************************)
(* C2  A location for which the resolution returns no record at all is     *)
(* not pushed to the search results.                                       *)
(***************************************************************************)
C2_NoDataExcluded ==
    (Evaluated /\ ~last.threw /\ last.daily = <<>>) => ~last.pushed

(***************************************************************************)
(* C3  A failed cache write-back after a fetch that returned records is    *)
(* not fatal: the resolution does not throw, returns the fetched records   *)
(* and the location is scored.                                             *)
(***************************************************************************)
C3_WriteFailureNonFatal ==
    (Evaluated /\ last.providerCalled /\ last.fetched # <<>> /\ ~last.writeOk)
        => (/\ ~last.threw
            /\ ~last.isNull
            /\ \A d \in FetchedDates : d \in ReturnedDates /\ ReturnedFor(d) = FetchedFor(d))

(***************************************************************************)
(* C5  A range within [today, today+16] whose forecast call (if any)       *)
(* answered has provenance forecast.                                       *)
(***************************************************************************)
InHorizon ==
    /\ last.startDate >= LastToday
    /\ last.endDate <= LastToday + maxForecastDays

C6_PastIsHistorical ==
    (Evaluated /\ ~last.threw /\ last.endDate < LastToday /\ AllAnswered)
        => last.dataSource = "historical"

(***************************************************************************)
(* C7  Provenance rule: forecast when every returned record was built by   *)
(* the forecast endpoint, historical when every returned record was built  *)
(* by the archive endpoint or by the averaging fallback, mixed otherwise.  *)
(***************************************************************************)
C7_ProvenanceRule ==
    (Evaluated /\ ~last.threw /\ last.daily # <<>>)
        => LET origins == {last.daily[i].origin : i \in 1..Len(last.daily)}
           IN  last.dataSource =
                   IF origins \subseteq {"forecast"} THEN "forecast"
                   ELSE IF origins \subseteq {"historical", "averaged"} THEN "historical"
                   ELSE "mixed"

(***************************************************************************)
(* C4  Temperature score of a day: 100 when the high is at most tempMax    *)
(* and the low at least tempMin (each when set); when only one bound is    *)
(* violated, 100 minus 10 per degree of the violation, floored at 0.       *)
(***************************************************************************)
C4_TemperatureScore ==
    (scOut # Idle) =>
        LET f == scIn.filters
            over == IF IsDef(f.tempMax) /\ scIn.tempHigh > Val(f.tempMax)
                    THEN scIn.tempHigh - Val(f.tempMax) ELSE 0
            under == IF IsDef(f.tempMin) /\ scIn.tempLow < Val(f.tempMin)
                     THEN Val(f.tempMin) - scIn.tempLow ELSE 0
        IN  /\ (over = 0 /\ under = 0) => scOut.temperature = 100
            /\ (over > 0 /\ under = 0) => scOut.temperature = Max(0, 100 - 10 * over)
            /\ (over = 0 /\ under > 0) => scOut.temperature = Max(0, 100 - 10 * under)

C8_WitnessHistorical ==
    /\ Evaluated
    /\ \E d \in LastDates :
          /\ last.cacheMap[d].dataType = "historical"
          /\ last.at - last.cacheMap[d].fetchedAt = 7 * 24
          /\ d \notin last.datesToFetch

Unanswered(d) == d \in last.datesToFetch /\ ~Answered(d)

AvgAnswered == {i \in 1..historicalYearsToAverage : avIn.yearOk[i]}

AvgTargetDays == CalendarDays(avIn.range.startDate, avIn.range.endDate)

C11_AveragingOverSuccessfulYears ==
    (avOut # Idle) =>
        LET k == Cardinality(AvgAnswered)
        IN  /\ k = 0 => (avOut.threw /\ avOut.results = <<>>)
            /\ k > 0 =>
                /\ ~avOut.threw
                /\ \A i \in 1..Len(AvgTargetDays) :
                      LET points == DayDataPoints(avOut.yearsData, i)
                      IN  /\ Len(points) = k
                          /\ \E j \in 1..Len(avOut.results) :
                                /\ avOut.results[j].date = AvgTargetDays[i]
                                /\ avOut.results[j].tempHigh
                                      = Round(SumField(points, "tempHigh"), k)
                                /\ avOut.results[j].humidity
                                      = Round(SumField(points, "humidity"), k)

(***************************************************************************)
(* Observations of a search used by the properties                         *)
(***************************************************************************)
Searching == req # Idle

Answered200 == response # Idle /\ response.status = 200

SearchLimit == OptOr(req.limit, DEFAULT_LIMIT)

SearchMinScore == OptOr(req.minScore, DEFAULT_MIN_SCORE)

\* What the closure gives for a grid point of each kind under the filters of
\* the searches (a result depends on the kind and the filters only).
KindResults == [kind \in GridPointKinds |-> scoreGridPoint(0, kind, SearchFilters)]

\* What the evaluation of the i-th grid point of the request gives.
ResultOf(i) ==
    IF req.filters = SearchFilters
    THEN [KindResults[req.gridPoints[i]] EXCEPT !.gridPointId = i]
    ELSE scoreGridPoint(i, req.gridPoints[i], req.filters)

Retainable(i) == ~ResultOf(i).isNull /\ ResultOf(i).score >= SearchMinScore

\* The grid points whose result is retained and scores at least 70.
HighRetainable ==
    {i \in 1..Len(req.gridPoints) : Retainable(i) /\ ResultOf(i).score >= HIGH_SCORE}

(***************************************************************************)
(* C12  Early stop: once the grid points of the first batches (10 each)    *)
(* give at least 2 x limit retained results scoring 70 or more, no grid    *)
(* point of a later batch is evaluated.  With limit 10, minScore 0 and 50  *)
(* grid points of which the first 20 score 90 or more, at most 30 are      *)
(* evaluated.                                                              *)
(***************************************************************************)
C12_EarlyStop ==
    Searching =>
        /\ \E high \in {HighRetainable} :
              \A b \in 1..Len(req.gridPoints) :
                  (b % batchSize = 0 /\ Cardinality(high \cap 1..b) >= 2 * SearchLimit)
                      => evaluated \subseteq 1..b
        /\ (/\ SearchLimit = 10
            /\ SearchMinScore = 0
            /\ Len(req.gridPoints) = 50
            /\ \A i \in 1..20 : ResultOf(i).score >= 90)
              => Cardinality(evaluated) <= 30

C12_Witness ==
    /\ Answered200
    /\ SearchLimit = 10
    /\ SearchMinScore = 0
    /\ Len(req.gridPoints) = 50
    /\ \A i \in 1..20 : ResultOf(i).score >= 90
    /\ \E i \in 21..50 : Retainable(i)
    /\ evaluated = 1..20
    /\ Len(response.results) = 10

(***************************************************************************)
(* C13  The list returned by a search has at most limit entries, is in     *)
(* non-increasing order of score and holds only scores of at least         *)
(* minScore.                                                               *)
(***************************************************************************)
C13_ResultList ==
    Answered200 =>
        LET results == response.results
        IN  /\ Len(results) <= SearchLimit
            /\ \A j \in 1..Len(results) : results[j].score >= SearchMinScore
            /\ \A j \in 1..Len(results) : \A k \in j..Len(results) :
                  results[j].score >= results[k].score

C13_Witness ==
    /\ Answered200
    /\ Len(scoredLocations) > SearchLimit
    /\ Len(response.results) = SearchLimit
    /\ \E j, k \in 1..Len(response.results) :
          response.results[j].score > response.results[k].score
    /\ \E i \in evaluated : ~ResultOf(i).isNull /\ ResultOf(i).score < SearchMinScore
    /\ \E j, k \in 1..Len(scoredLocations) :
          j < k /\ scoredLocations[j].score < scoredLocations[k].score

(***************************************************************************)
(* C14  Failure isolation: a grid point whose resolution throws is left    *)
(* out, the other grid points of its batch and the later batches are       *)
(* still evaluated and retained, and the search answers 200, also when     *)
(* every grid point fails (empty list).  Only the early stop ends the      *)
(* loop before the last batch.                                             *)
(***************************************************************************)
BatchOf(i) == (i - 1) \div batchSize

InResults(i) == \E j \in 1..Len(response.results) : response.results[j].gridPointId = i

C14_FailureIsolation ==
    (/\ Searching
     /\ response # Idle
     /\ weatherDateRangeSchema(req.dateRange)
     /\ req.gridPointsOk)
    => \E high \in {HighRetainable} :
        LET n == Len(req.gridPoints)
        IN  /\ response.status = 200
            /\ \A i \in 1..n :
                  (\E e \in evaluated : BatchOf(e) = BatchOf(i)) => i \in evaluated
            /\ \A b \in 1..n :
                  (b % batchSize = 0 /\ b < n /\ evaluated \subseteq 1..b)
                      => Cardinality(high \cap 1..b) >= 2 * SearchLimit
            /\ \A i \in evaluated :
                  Retainable(i) =>
                      /\ \E j \in 1..Len(scoredLocations) : scoredLocations[j].gridPointId = i
                      /\ Len(scoredLocations) <= SearchLimit => InResults(i)
            /\ \A i \in 1..n : ResultOf(i).isNull => ~InResults(i)
            /\ (\A i \in 1..n : ResultOf(i).isNull) => response.results = <<>>

C14_Witness ==
    /\ Answered200
    /\ \E i, j, k \in evaluated :
          /\ ResultOf(i).isNull
          /\ BatchOf(j) = BatchOf(i) /\ j > i /\ InResults(j)
          /\ BatchOf(k) > BatchOf(i) /\ InResults(k)

C14_WitnessAllFail ==
    /\ Answered200
    /\ Len(req.gridPoints) > batchSize
    /\ \A i \in 1..Len(req.gridPoints) : ResultOf(i).isNull
    /\ evaluated = 1..Len(req.gridPoints)
    /\ response.results = <<>>

(***************************************************************************)
(* C18  A request whose date range covers more than 90 calendar days,      *)
(* both ends counted, is rejected by validation (400) and no grid point is *)
(* evaluated for it; a range of 1 to 90 days is not rejected.              *)
(***************************************************************************)
RangeDays == req.dateRange.endDate - req.dateRange.startDate + 1

C18_RangeValidation ==
    Searching =>
        /\ RangeDays > 90 =>
              /\ evaluated = {}
              /\ pos = -1
              /\ response # Idle => response.status = 400
        /\ (RangeDays >= 1 /\ RangeDays <= 90 /\ response # Idle)
              => response.status # 400

(***************************************************************************)
(* C15  Cache key: the cache never holds two rows of the same (date,       *)
(* dataType) for the grid point; a resolution that writes leaves, for      *)
(* every fetched day, exactly one row of its key, holding the fetched      *)
(* record and the time of the write, and adds a row only for keys that     *)
(* had none; no row's key ever disappears.                                 *)
(***************************************************************************)
KeysOf(rows) == {<<r.date, r.dataType>> : r \in rows}

WrittenKeys(o) ==
    IF o.threw \/ ~o.writeOk THEN {}
    ELSE {<<o.fetched[i].date, dataTypeOfDay(o.fetched[i].date, Today(o.at))>> :
             i \in 1..Len(o.fetched)}

C19_ThresholdScores ==
    (scOut # Idle) =>
        LET f == scIn.filters
        IN  /\ IsDef(f.humidityMax) =>
                /\ scIn.humidity <= Val(f.humidityMax) => scOut.humidity = 100
                /\ scIn.humidity > Val(f.humidityMax) =>
                      scOut.humidity
                          = Max(0, 100 - 5 * (scIn.humidity - Val(f.humidityMax)))
                /\ (scIn.humidity = 85 /\ Val(f.humidityMax) = 70) => scOut.humidity = 25
            /\ IsDef(f.windSpeedMax) =>
                /\ scIn.windSpeed <= Val(f.windSpeedMax) => scOut.wind = 100
                /\ scIn.windSpeed > Val(f.windSpeedMax) =>
                      scOut.wind
                          = Max(0, 100 - 10 * (scIn.windSpeed - Val(f.windSpeedMax)))

C19_Witness ==
    /\ scOut # Idle
    /\ scIn.humidity = 85 /\ scIn.filters.humidityMax = {70} /\ scOut.humidity = 25
    /\ scIn.windSpeed = 22 /\ scIn.filters.windSpeedMax = {15} /\ scOut.wind = 30

(***************************************************************************)
(* Observations of a scored location used by the properties                *)
(***************************************************************************)
Categories == {"temperature", "humidity", "wind", "precipitation"}

CategoryActive(cat) ==
    CASE cat = "temperature" -> TempActive(scIn.filters)
      [] cat = "humidity" -> HumidityActive(scIn.filters)
      [] cat = "wind" -> WindActive(scIn.filters)
      [] cat = "precipitation" -> PrecipActive(scIn.filters)

ActiveCategories == {cat \in Categories : CategoryActive(cat)}

\* The score of a day in an active category.
DayScore(day, cat) ==
    CASE cat = "temperature" -> scoreTemperature(day.tempHigh, day.tempLow, scIn.filters)
      [] cat = "humidity" -> scoreHumidity(day.humidity, Val(scIn.filters.humidityMax))
      [] cat = "wind" -> scoreWind(day.windSpeed, Val(scIn.filters.windSpeedMax))
      [] cat = "precipitation" ->
            scorePrecipitation(day.precipChance, day.precipType, scIn.filters)

RECURSIVE SumDayScores(_, _)
SumDayScores(daily, cat) ==
    IF daily = <<>> THEN 0
    ELSE DayScore(Head(daily), cat) + SumDayScores(Tail(daily), cat)

\* x is the quotient n / d rounded to a nearest integer.
IsRounded(x, n, d) == 2 * x * d - 2 * n <= d /\ 2 * n - 2 * x * d <= d

RECURSIVE SumOver(_, _)
SumOver(f, S) ==
    IF S = {} THEN 0
    ELSE LET c == CHOOSE c \in S : TRUE IN f[c] + SumOver(f, S \ {c})

C17_ActiveOnlyWeights ==
    (scOut # Idle /\ ActiveCategories # {}) =>
        IsRounded(scOut.score, SumOver(scOut.scoreBreakdown, ActiveCategories),
                  Cardinality(ActiveCategories))

(***************************************************************************)
(* C20  The aggregate of an active category is the mean of its per-day     *)
(* scores over the returned days, rounded to an integer (80, 100, 100      *)
(* give 93); it is 100 when the category is inactive or no day is          *)
(* returned.                                                               *)
(***************************************************************************)
C20_CategoryAggregate ==
    (scOut # Idle) =>
        \A cat \in Categories :
            IF CategoryActive(cat) /\ Len(scIn.daily) > 0
            THEN IsRounded(scOut.scoreBreakdown[cat],
                           SumDayScores(scIn.daily, cat), Len(scIn.daily))
            ELSE scOut.scoreBreakdown[cat] = 100

C20_Witness ==
    /\ scOut # Idle
    /\ Len(scIn.daily) = 3
    /\ TempActive(scIn.filters)
    /\ DayScore(scIn.daily[1], "temperature") = 80
    /\ DayScore(scIn.daily[2], "temperature") = 100
    /\ DayScore(scIn.daily[3], "temperature") = 100
    /\ scOut.scoreBreakdown.temperature = 93
    /\ ~HumidityActive(scIn.filters) /\ scOut.scoreBreakdown.humidity = 100

FiltersOf(keys) ==
    [k \in DOMAIN NoFilters |-> IF k \in keys THEN RescoreValues[k] ELSE {}]

RequestedDates(o) == UNION {c.from..c.to : c \in o.sourceCalls}

FetchSpan(o) ==
    IF o.datesToFetch = {} THEN {}
    ELSE SetMin(o.datesToFetch)..SetMax(o.datesToFetch)

C24_SameDayPerDate ==
    (avOut # Idle /\ ~avOut.threw) =>
        \A i \in 1..Len(AvgTargetDays) :
            LET target == AvgTargetDays[i]
                points == DayDataPoints(avOut.yearsData, i)
                alone == fetchHistoricalAveragesOfYears(target, target, avIn.yearOk)
            IN  /\ \A j \in 1..Len(points) :
                      /\ points[j].date.md = target.md
                      /\ points[j].date.year \in
                            (target.year - historicalYearsToAverage)..(target.year - 1)
                /\ \A j \in 1..Len(avOut.results) :
                      avOut.results[j].date = target
                          => <<avOut.results[j]>> = alone.results

(***************************************************************************)
(* C25  Source routing by date within one provider request: the dates      *)
(* before today are asked of the historical endpoint and of no other, the  *)
(* dates of [today, today+16] are asked of the forecast endpoint, the      *)
(* dates after today+16 of the averaging fallback; the three date sets     *)
(* are pairwise disjoint and cover the requested range exactly, and the    *)
(* returned list is ascending by date with one record per date at most.    *)
(***************************************************************************)
IssuedAt(step) == {i \in 1..Len(gw.issued) : gw.issued[i].step = step}

DatesAskedAt(step) == UNION {gw.issued[i].from..gw.issued[i].to : i \in IssuedAt(step)}

SampleYears(points, type) ==
    {points[j].date.year : j \in {k \in 1..Len(points) : points[k].precipType = type}}

SampleTypes(points) == {points[j].precipType : j \in 1..Len(points)}

EstimateOf(i) ==
    avOut.results[CHOOSE j \in 1..Len(avOut.results) :
                      avOut.results[j].date = AvgTargetDays[i]]

C27_PrecipMode ==
    (avOut # Idle /\ ~avOut.threw) =>
        \A i \in 1..Len(AvgTargetDays) :
            LET points == DayDataPoints(avOut.yearsData, i)
            IN  points # <<>> =>
                  LET type == EstimateOf(i).precipType
                  IN  /\ type \in SampleTypes(points)
                      /\ \A other \in SampleTypes(points) \ {type} :
                            LET n == Cardinality(SampleYears(points, type))
                                m == Cardinality(SampleYears(points, other))
                            IN  \/ n > m
                                \/ /\ n = m
                                   /\ SetMax(SampleYears(points, type))
                                         > SetMax(SampleYears(points, other))

\* For one date of the range two categories occur equally often and the
\* estimate has the one of the more recent year, a precipitation; for another
\* date the estimate has a category that the most recent year does not have.
C27_Witness ==
    /\ avOut # Idle /\ ~avOut.threw
    /\ \E i \in 1..Len(AvgTargetDays) :
          LET points == DayDataPoints(avOut.yearsData, i)
          IN  /\ Len(points) >= 2
              /\ \E other \in SampleTypes(points) \ {EstimateOf(i).precipType} :
                    Cardinality(SampleYears(points, other))
                        = Cardinality(SampleYears(points, EstimateOf(i).precipType))
              /\ EstimateOf(i).precipType = points[1].precipType
              /\ EstimateOf(i).precipType # "none"
    /\ \E i \in 1..Len(AvgTargetDays) :
          LET points == DayDataPoints(avOut.yearsData, i)
          IN  /\ Len(points) >= 2
              /\ EstimateOf(i).precipType # points[1].precipType

(***************************************************************************)
(* C28  Precipitation score as claimed: the least of 100 and of the        *)
(* sub-checks that apply, each floored at 0: 100 - chance when the         *)
(* category is excluded and chance > 0; 100 - chance when a whitelist is   *)
(* given, empty or not, the category is neither 'none' nor in it and       *)
(* chance > 0; 100 - 2 * (chance - precipChanceMax) when chance exceeds    *)
(* precipChanceMax.                                                        *)
(***************************************************************************)
ExcludedCheck ==
    IF /\ IsDef(scIn.filters.precipTypesExcluded)
       /\ scIn.precipType \in Val(scIn.filters.precipTypesExcluded)
       /\ scIn.precipChance > 0
    THEN {Max(0, 100 - scIn.precipChance)} ELSE {}

ChanceCheck ==
    IF /\ IsDef(scIn.filters.precipChanceMax)
       /\ scIn.precipChance > Val(scIn.filters.precipChanceMax)
    THEN {Max(0, 100 - 2 * (scIn.precipChance - Val(scIn.filters.precipChanceMax)))}
    ELSE {}

WhitelistCheckAsClaimed ==
    IF /\ IsDef(scIn.filters.precipTypesAllowed)
       /\ scIn.precipType # "none"
       /\ scIn.precipType \notin Val(scIn.filters.precipTypesAllowed)
       /\ scIn.precipChance > 0
    THEN {Max(0, 100 - scIn.precipChance)} ELSE {}

C28_PrecipScoreAsClaimed ==
    (scOut # Idle) =>
        scOut.precipitation
            = SetMin({100} \cup ExcludedCheck \cup WhitelistCheckAsClaimed \cup ChanceCheck)

(***************************************************************************)
(* C28 amended  The same, the whitelist sub-check applying only when the   *)
(* whitelist is given and not empty: an empty whitelist restricts nothing. *)
(* The score is the least element of a set, whatever the order of the      *)
(* sub-checks.                                                             *)
(***************************************************************************)
WhitelistCheck ==
    IF /\ IsDef(scIn.filters.precipTypesAllowed)
       /\ Val(scIn.filters.precipTypesAllowed) # {}
       /\ scIn.precipType # "none"
       /\ scIn.precipType \notin Val(scIn.filters.precipTypesAllowed)
       /\ scIn.precipChance > 0
    THEN {Max(0, 100 - scIn.precipChance)} ELSE {}

C28_PrecipScore ==
    (scOut # Idle) =>
        /\ scOut.precipitation
              = SetMin({100} \cup ExcludedCheck \cup WhitelistCheck \cup ChanceCheck)
        /\ scOut.precipitation \in 0..100

\* Snow at 60 % under an empty whitelist and precipChanceMax 50, snow being
\* excluded as well: the excluded check gives 40, the chance check 80, and
\* the score is 40.
C28_Witness ==
    /\ scOut # Idle
    /\ scIn.precipChance = 60 /\ scIn.precipType = "snow"
    /\ scIn.filters.precipTypesAllowed = {{}}
    /\ scIn.filters.precipTypesExcluded = {{"snow"}}
    /\ scIn.filters.precipChanceMax = {50}
    /\ ExcludedCheck = {40} /\ ChanceCheck = {80} /\ WhitelistCheck = {}
    /\ scOut.precipitation = 40

(***************************************************************************)
(* C29  Bounded parallelism of the search: at most 10 resolutions are in   *)
(* flight at any moment; a resolution starts only for a location that was  *)
(* never started before in the search, and only when no resolution of an   *)
(* earlier batch is still in flight; the response is sent with nothing in  *)
(* flight, and, every started resolution completing, the search ends with  *)
(* a response.                                                             *)
(***************************************************************************)
C29_BoundedParallelism ==
    /\ [](Cardinality(inFlight) <= batchSize)
    /\ [][(inFlight' \ inFlight # {}) =>
             /\ inFlight = {}
             /\ settled = {}
             /\ \A i \in inFlight' : i \notin evaluated]_vars
    /\ [](response # Idle => inFlight = {})
    /\ <>(response # Idle /\ inFlight = {})

\* The second batch is in flight, ten closures at once, the first batch
\* having been joined with results retained.
C29_Witness ==
    /\ pos = batchSize
    /\ Cardinality(inFlight) = batchSize
    /\ \A i \in inFlight : i > batchSize
    /\ evaluated = 1..(2 * batchSize)
    /\ Len(scoredLocations) > 0
    /\ response = Idle

(***************************************************************************)
(* C30  Concurrent resolutions of the same location, in every interleaving *)
(* of their reads, provider requests and write-back transactions: a        *)
(* finished resolution returns a record for every date its provider        *)
(* request answered; the cache holds at most one row per (date, dataType); *)
(* each row written by the two is the whole record one of them fetched,    *)
(* with that one's time; the rows a resolution read hold all or none of    *)
(* the other's write-back batch.                                           *)
(***************************************************************************)
ConcFetchedDates(p) == {procs[p].fetched[i].date : i \in 1..Len(procs[p].fetched)}

ConcReturnedDates(p) == {procs[p].daily[i].date : i \in 1..Len(procs[p].daily)}

\* The dates of the rows resolution p read that resolution q wrote.
ReadFrom(p, q) ==
    {d \in DOMAIN procs[p].cacheMap :
        /\ procs[p].cacheMap[d] # NoRow
        /\ procs[p].cacheMap[d].fetchedAt = ConcInstant(q)}

C30_ReturnsEveryAnsweredDate ==
    \A p \in ConcProcs :
        procs[p].pc = "done" => ConcFetchedDates(p) \subseteq ConcReturnedDates(p)

C30_CacheWhole ==
    /\ Cardinality(KeysOf(cache)) = Cardinality(cache)
    /\ \A r \in cache :
          \/ r.fetchedAt = 0
          \/ \E p \in ConcProcs :
                /\ r.fetchedAt = ConcInstant(p)
                /\ \E i \in 1..Len(procs[p].fetched) :
                      /\ procs[p].fetched[i] = r.data
                      /\ r.date = r.data.date
    /\ \A p, q \in ConcProcs :
          (p # q /\ procs[p].pc # "read") =>
              \/ ReadFrom(p, q) = {}
              \/ ReadFrom(p, q) = ConcFetchedDates(q)
                     \cap (procs[p].startDate..procs[p].endDate)

C30_ConcurrentSafe ==
    (procs # Idle) => (C30_ReturnsEveryAnsweredDate /\ C30_CacheWhole)

====
